---- MODULE Spec2Model ----
(***************************************************************************)
(* State-machine model of the transmission-line parameter sessions:        *)
(*   - pytline_calc   (FINAL RELEASE/pytline/calculator.py, core.py,       *)
(*                     constants.py)                                        *)
(*   - GMDGMRApp      (FINAL RELEASE/GMRGMDTEST.py)                        *)
(*                                                                         *)
(* Lengths are fixed-point integers in units of 1e-7 m, so that every      *)
(* factor of the unit table and the default self-GMR 0.01 * 0.7788 m are   *)
(* integers.  A Python dict is a function whose DOMAIN is its key set; a   *)
(* dict assignment d[k] = v may add a key (DictSet).  A caller-supplied    *)
(* scalar is a record [numeric, val, den] for val / den; float() raises   *)
(* on a non-numeric one.                                                   *)
(* Real-valued results that are roots of products are kept as exact terms  *)
(* [num |-> <<factors>>, root |-> k], meaning (product of num)^(1/k).      *)
(***************************************************************************)
EXTENDS Integers, Sequences, FiniteSets, TLC

VARIABLES
    bundles, r_self, unit, material, length, conductor_radius, freq,
    calc_history, ret, ncalls,
    app_bundles, app_r_self, app_unit, app_material, app_length,
    app_conductor_radius, app_freq, app_ret,
    held, cr, core, imp

pvars == <<bundles, r_self, unit, material, length, conductor_radius, freq,
           calc_history, ret>>
avars == <<app_bundles, app_r_self, app_unit, app_material, app_length,
           app_conductor_radius, app_freq, app_ret>>
\* held: the caller's handle on a result dict returned by compute_results;
\* cr: the frame of a compute_results call in progress; core: the arguments and
\* results of a direct call of the core.py functions; imp: the session file
\* the UI's handleImport is restoring and the backend unit it started with.
xvars == <<held, cr, core, imp>>
vars == <<pvars, avars, ncalls, xvars>>

(* ---------------------------- bounds ---------------------------------- *)
\* Number of calls made on a session in one explored execution.
MaxCalls == 4
\* Number of points a caller places in one bundle.
MaxPts == 2
\* Number of points of the first bundle in a direct call of a core.py function.
MaxBundle == 3

(* ---------------------------- constants.py ---------------------------- *)
UNIT_CONVERSIONS ==
    [m |-> 10000000, ft |-> 3048000, inch |-> 254000, cm |-> 100000, mm |-> 10000]

\* Resistivity in units of 1e-10 ohm.m
MATERIALS == [Copper |-> 168, Aluminum |-> 282, Steel |-> 1430, ACSR |-> 320]

(* ---------------------------- caller inputs --------------------------- *)
\* a numeric argument val / den (den = 1 for a whole number), or a non-numeric one
Num(v) == [numeric |-> TRUE, val |-> v, den |-> 1]
Dec(v, d) == [numeric |-> TRUE, val |-> v, den |-> d]
NotANumber == [numeric |-> FALSE, val |-> 0, den |-> 1]

UnitInputs == {"m", "ft", "inch", "cm", "mm", "km"}
PhaseInputs == {"A", "B", "C", "D"}
MaterialInputs == {"ACSR", "Gold"}
XInputs == {Num(0), Num(1), NotANumber}
YInputs == {Num(1), NotANumber}
GmrInputs == {Num(2), Num(0), NotANumber}
LengthInputs == {Num(150), NotANumber}
RadiusInputs == {Num(0), NotANumber}
FreqInputs == {Num(50), NotANumber}
Timestamps == {0}

(* ---------------------------- Python helpers -------------------------- *)
\* d[k] = v on a dict
DictSet(d, k, v) == [x \in (DOMAIN d) \cup {k} |-> IF x = k THEN v ELSE d[x]]

\* float(x): the value of a numeric input; the caller checks CanFloat first
\* (float raises ValueError otherwise)
CanFloat(x) == x.numeric
\* float(x) * f, for a factor f that is a multiple of x.den
FloatTimes(x, f) == (x.val * f) \div x.den
Float(x) == FloatTimes(x, 1)

Raise(op) == [op |-> op, status |-> "raise", value |-> [exception |-> "raised"]]
Return(op, v) == [op |-> op, status |-> "ok", value |-> v]

(* ---------------------------- exact terms ----------------------------- *)
RECURSIVE Gcd(_, _)
Gcd(a, b) == IF b = 0 THEN a ELSE Gcd(b, a % b)
Lcm(a, b) == (a * b) \div Gcd(a, b)

Plain(x) == [num |-> <<x>>, root |-> 1]

RECURSIVE Rep(_, _)
Rep(s, k) == IF k = 0 THEN <<>> ELSE s \o Rep(s, k - 1)

\* t^k and t^(1/k)
TermPow(t, k) == [num |-> Rep(t.num, k), root |-> t.root]
TermRoot(t, k) == [num |-> t.num, root |-> t.root * k]

RECURSIVE LcmRoots(_)
LcmRoots(ts) == IF ts = <<>> THEN 1 ELSE Lcm(Head(ts).root, LcmRoots(Tail(ts)))

RECURSIVE ConcatPow(_, _)
ConcatPow(ts, l) ==
    IF ts = <<>> THEN <<>>
    ELSE Rep(Head(ts).num, l \div Head(ts).root) \o ConcatPow(Tail(ts), l)

\* np.prod over a list of terms
TermProd(ts) == [num |-> ConcatPow(ts, LcmRoots(ts)), root |-> LcmRoots(ts)]

\* Equality of the real values of two terms, by unique factorisation: a term
\* is zero iff one factor is, and two non-zero terms are equal iff every prime
\* has the same exponent (sum of valuations / root) in both.
Abs(x) == IF x < 0 THEN 0 - x ELSE x

RECURSIVE Valuation(_, _)
Valuation(x, p) == IF x % p = 0 THEN 1 + Valuation(x \div p, p) ELSE 0

RECURSIVE StripFactor(_, _)
StripFactor(x, p) == IF x % p = 0 THEN StripFactor(x \div p, p) ELSE x

\* the primes of x that are >= d, x having no divisor in 2..(d - 1); trial
\* division takes 64 candidates at a time
RECURSIVE PrimesFrom(_, _)
PrimesFrom(x, d) ==
    LET found == {e \in d..(d + 63) : e <= x \div e /\ x % e = 0}
        p == CHOOSE e \in found : \A f \in found : e <= f
    IN  IF x = 1 THEN {}
        ELSE IF found # {} THEN {p} \cup PrimesFrom(StripFactor(x, p), p + 1)
        ELSE IF d + 64 > x \div (d + 64) THEN {x}
        ELSE PrimesFrom(x, d + 64)

PrimesOf(t) == UNION {PrimesFrom(Abs(t.num[i]), 2) : i \in 1..Len(t.num)}

RECURSIVE SumValuations(_, _)
SumValuations(num, p) ==
    IF num = <<>> THEN 0
    ELSE Valuation(Abs(Head(num)), p) + SumValuations(Tail(num), p)

TermIsZero(t) == \E i \in 1..Len(t.num) : t.num[i] = 0

TermIsNegative(t) == Cardinality({i \in 1..Len(t.num) : t.num[i] < 0}) % 2 = 1

TermEq(t1, t2) ==
    IF TermIsZero(t1) \/ TermIsZero(t2) THEN TermIsZero(t1) /\ TermIsZero(t2)
    ELSE /\ TermIsNegative(t1) = TermIsNegative(t2)
         /\ \A p \in PrimesOf(t1) \cup PrimesOf(t2) :
               SumValuations(t1.num, p) * t2.root = SumValuations(t2.num, p) * t1.root

\* k * t for a plain number k
TermScale(k, t) == [num |-> Rep(<<k>>, t.root) \o t.num, root |-> t.root]

(* ---------------------------- core.py --------------------------------- *)
\* variant that pairs each point with its successor only
Combinations2_adjacent(s) == [i \in 1..(Len(s) - 1) |-> <<s[i], s[i + 1]>>]

\* itertools.combinations(s, 2), in its order
RECURSIVE Combinations2(_)
Combinations2(s) ==
    IF Len(s) < 2 THEN <<>>
    ELSE [i \in 1..(Len(s) - 1) |-> <<s[1], s[i + 1]>>] \o Combinations2(Tail(s))

\* variant that pairs every point of s with the first point of t only
Product_first_of_second(s, t) == [i \in 1..Len(s) |-> <<s[i], t[1]>>]

\* itertools.product(s, t), in its order
RECURSIVE Product(_, _)
Product(s, t) ==
    IF s = <<>> THEN <<>>
    ELSE [j \in 1..Len(t) |-> <<s[1], t[j]>>] \o Product(Tail(s), t)

Sq(x) == x * x

\* sqrt(dx^2 + dy^2) = sqrt(g^2 * ((dx/g)^2 + (dy/g)^2)) for g = gcd(|dx|, |dy|),
\* which keeps the squares in range
distance(p1, p2) ==
    LET dx == Abs(p1[1] - p2[1])
        dy == Abs(p1[2] - p2[2])
        g == Gcd(dx, dy)
    IN  [num |-> <<g, g, IF g = 0 THEN 0 ELSE Sq(dx \div g) + Sq(dy \div g)>>,
         root |-> 2]

\* variant whose root is one more than the number of values
geometric_mean_root_off_by_one(values) ==
    IF values = <<>> THEN Plain(UNIT_CONVERSIONS.m)
    ELSE TermRoot(TermProd(values), Len(values) + 1)

geometric_mean(values) ==
    IF values = <<>> THEN Plain(UNIT_CONVERSIONS.m)
    ELSE TermRoot(TermProd(values), Len(values))

\* variant that treats the empty bundle like a single conductor
compute_gmr_empty_as_single(bundle_points, r) ==
    LET n == Len(bundle_points)
        distances == [i \in 1..Len(Combinations2(bundle_points)) |->
                        distance(Combinations2(bundle_points)[i][1],
                                 Combinations2(bundle_points)[i][2])]
        all_terms_product ==
            TermProd(<<TermPow(Plain(r), n), TermPow(TermProd(distances), 2)>>)
    IN  IF n <= 1 THEN Plain(r)
        ELSE TermRoot(all_terms_product, n * n)

\* variant that takes the product of the distances once, not squared
compute_gmr_unsquared(bundle_points, r) ==
    LET n == Len(bundle_points)
        distances == [i \in 1..Len(Combinations2(bundle_points)) |->
                        distance(Combinations2(bundle_points)[i][1],
                                 Combinations2(bundle_points)[i][2])]
        product_of_distances ==
            IF distances = <<>> THEN Plain(1) ELSE TermProd(distances)
        all_terms_product ==
            TermProd(<<TermPow(Plain(r), n), product_of_distances>>)
    IN  IF n = 0 THEN Plain(UNIT_CONVERSIONS.m)
        ELSE IF n = 1 THEN Plain(r)
        ELSE TermRoot(all_terms_product, n * n)

\* variant that applies the 0.7788 factor to the self-GMR of a single conductor
compute_gmr_derated(bundle_points, r) ==
    LET n == Len(bundle_points)
        distances == [i \in 1..Len(Combinations2(bundle_points)) |->
                        distance(Combinations2(bundle_points)[i][1],
                                 Combinations2(bundle_points)[i][2])]
        all_terms_product ==
            TermProd(<<TermPow(Plain(r), n), TermPow(TermProd(distances), 2)>>)
    IN  IF n = 0 THEN Plain(UNIT_CONVERSIONS.m)
        ELSE IF n = 1 THEN Plain((r * 7788) \div 10000)
        ELSE TermRoot(all_terms_product, n * n)

compute_gmr(bundle_points, r) ==
    LET n == Len(bundle_points)
        distances == [i \in 1..Len(Combinations2(bundle_points)) |->
                        distance(Combinations2(bundle_points)[i][1],
                                 Combinations2(bundle_points)[i][2])]
        product_of_distances ==
            IF distances = <<>> THEN Plain(1) ELSE TermProd(distances)
        all_terms_product ==
            TermProd(<<TermPow(Plain(r), n), TermPow(product_of_distances, 2)>>)
    IN  IF n = 0 THEN Plain(UNIT_CONVERSIONS.m)
        ELSE IF n = 1 THEN Plain(r)
        ELSE TermRoot(all_terms_product, n * n)

compute_gmd(bundle1, bundle2) ==
    IF bundle1 = <<>> \/ bundle2 = <<>> THEN Plain(UNIT_CONVERSIONS.m)
    ELSE geometric_mean([i \in 1..Len(Product(bundle1, bundle2)) |->
                           distance(Product(bundle1, bundle2)[i][1],
                                    Product(bundle1, bundle2)[i][2])])

(* ---------------------------- pytline_calc ---------------------------- *)
\* variant without the 0.7788 factor
DefaultRSelf_plain_radius == UNIT_CONVERSIONS.cm

DefaultRSelf == (UNIT_CONVERSIONS.cm * 7788) \div 10000

Init_pytline ==
    /\ bundles = [A |-> <<>>, B |-> <<>>, C |-> <<>>]
    /\ r_self = [A |-> DefaultRSelf, B |-> DefaultRSelf, C |-> DefaultRSelf]
    /\ unit = "m"
    /\ material = "Copper"
    /\ length = 100
    /\ conductor_radius = UNIT_CONVERSIONS.cm
    /\ freq = 60
    /\ calc_history = <<>>
    /\ ret = [op |-> "__init__", status |-> "ok", value |-> [msg |-> "constructed"]]

Call == ncalls < MaxCalls /\ ncalls' = ncalls + 1

set_unit(u) ==
    /\ Call
    /\ IF u \in DOMAIN UNIT_CONVERSIONS
       THEN /\ unit' = u
            /\ ret' = Return("set_unit", [msg |-> "Units set to", u |-> u])
       ELSE /\ unit' = unit
            /\ ret' = Raise("set_unit")
    /\ UNCHANGED <<bundles, r_self, material, length, conductor_radius, freq,
                   calc_history, avars, xvars>>

\* variant without the phase check: r_self[bundle] is assigned for any label
set_self_gmr_unchecked(bundle, r_self_val) ==
    /\ Call
    /\ IF ~CanFloat(r_self_val)
       THEN /\ r_self' = r_self
            /\ ret' = Raise("set_self_gmr")
       ELSE /\ r_self' = DictSet(r_self, bundle, FloatTimes(r_self_val, UNIT_CONVERSIONS[unit]))
            /\ ret' = Return("set_self_gmr", [msg |-> "Set self GMR (r')"])
    /\ UNCHANGED <<bundles, unit, material, length, conductor_radius, freq,
                   calc_history, avars, xvars>>

set_self_gmr(bundle, r_self_val) ==
    /\ Call
    /\ IF bundle \notin DOMAIN bundles
       THEN /\ r_self' = r_self
            /\ ret' = Raise("set_self_gmr")
       ELSE IF ~CanFloat(r_self_val)
       THEN /\ r_self' = r_self
            /\ ret' = Raise("set_self_gmr")
       ELSE /\ r_self' = DictSet(r_self, bundle, FloatTimes(r_self_val, UNIT_CONVERSIONS[unit]))
            /\ ret' = Return("set_self_gmr", [msg |-> "Set self GMR (r')"])
    /\ UNCHANGED <<bundles, unit, material, length, conductor_radius, freq,
                   calc_history, avars, xvars>>

\* The four assignments run in order; a failing float() leaves the earlier ones done.
set_line_params(material_in, length_km, conductor_radius_m, freq_hz) ==
    /\ Call
    /\ IF material_in \notin DOMAIN MATERIALS
       THEN /\ UNCHANGED <<material, length, conductor_radius, freq>>
            /\ ret' = Raise("set_line_params")
       ELSE IF ~CanFloat(length_km)
       THEN /\ material' = material_in
            /\ UNCHANGED <<length, conductor_radius, freq>>
            /\ ret' = Raise("set_line_params")
       ELSE IF ~CanFloat(conductor_radius_m)
       THEN /\ material' = material_in
            /\ length' = Float(length_km)
            /\ UNCHANGED <<conductor_radius, freq>>
            /\ ret' = Raise("set_line_params")
       ELSE IF ~CanFloat(freq_hz)
       THEN /\ material' = material_in
            /\ length' = Float(length_km)
            /\ conductor_radius' = FloatTimes(conductor_radius_m, UNIT_CONVERSIONS.m)
            /\ UNCHANGED freq
            /\ ret' = Raise("set_line_params")
       ELSE /\ material' = material_in
            /\ length' = Float(length_km)
            /\ conductor_radius' = FloatTimes(conductor_radius_m, UNIT_CONVERSIONS.m)
            /\ freq' = Float(freq_hz)
            /\ ret' = Return("set_line_params", [msg |-> "Line parameters updated"])
    /\ UNCHANGED <<bundles, r_self, unit, calc_history, avars, xvars>>

\* variant that converts x but stores y as given
add_point_y_unconverted(x, y, bundle) ==
    /\ Call
    /\ IF bundle \notin DOMAIN bundles
       THEN /\ bundles' = bundles
            /\ ret' = Raise("add_point")
       ELSE IF ~CanFloat(x) \/ ~CanFloat(y)
       THEN /\ bundles' = bundles
            /\ ret' = Raise("add_point")
       ELSE /\ Len(bundles[bundle]) < MaxPts
            /\ bundles' = DictSet(bundles, bundle,
                            Append(bundles[bundle],
                                   <<FloatTimes(x, UNIT_CONVERSIONS[unit]), Float(y)>>))
            /\ ret' = Return("add_point", [msg |-> "Added point"])
    /\ UNCHANGED <<r_self, unit, material, length, conductor_radius, freq,
                   calc_history, avars, xvars>>

\* variant in which the snapshots hold the session's point lists themselves
\* (no v[:] copy): an append is seen through every snapshot of that list
add_point_into_snapshots(x, y, bundle) ==
    /\ Call
    /\ IF bundle \notin DOMAIN bundles
       THEN /\ bundles' = bundles
            /\ ret' = Raise("add_point")
            /\ calc_history' = calc_history
       ELSE IF ~CanFloat(x) \/ ~CanFloat(y)
       THEN /\ bundles' = bundles
            /\ ret' = Raise("add_point")
            /\ calc_history' = calc_history
       ELSE /\ Len(bundles[bundle]) < MaxPts
            /\ bundles' = DictSet(bundles, bundle,
                            Append(bundles[bundle],
                                   <<FloatTimes(x, UNIT_CONVERSIONS[unit]),
                                     FloatTimes(y, UNIT_CONVERSIONS[unit])>>))
            /\ calc_history' =
                 [i \in 1..Len(calc_history) |->
                    IF calc_history[i].config.bundles[bundle] = bundles[bundle]
                    THEN [calc_history[i] EXCEPT !.config.bundles[bundle] = bundles'[bundle]]
                    ELSE calc_history[i]]
            /\ ret' = Return("add_point", [msg |-> "Added point"])
    /\ UNCHANGED <<r_self, unit, material, length, conductor_radius, freq,
                   avars, xvars>>

add_point(x, y, bundle) ==
    /\ Call
    /\ IF bundle \notin DOMAIN bundles
       THEN /\ bundles' = bundles
            /\ ret' = Raise("add_point")
       ELSE IF ~CanFloat(x) \/ ~CanFloat(y)
       THEN /\ bundles' = bundles
            /\ ret' = Raise("add_point")
       ELSE /\ Len(bundles[bundle]) < MaxPts
            /\ bundles' = DictSet(bundles, bundle,
                            Append(bundles[bundle],
                                   <<FloatTimes(x, UNIT_CONVERSIONS[unit]),
                                     FloatTimes(y, UNIT_CONVERSIONS[unit])>>))
            /\ ret' = Return("add_point", [msg |-> "Added point"])
    /\ UNCHANGED <<r_self, unit, material, length, conductor_radius, freq,
                   calc_history, avars, xvars>>

\* variant without the phase check: bundles[bundle] = [] for any label
clear_bundle_unchecked(bundle) ==
    /\ Call
    /\ bundles' = DictSet(bundles, bundle, <<>>)
    /\ ret' = Return("clear_bundle", [msg |-> "Cleared bundle"])
    /\ UNCHANGED <<r_self, unit, material, length, conductor_radius, freq,
                   calc_history, avars, xvars>>

clear_bundle(bundle) ==
    /\ Call
    /\ IF bundle \notin DOMAIN bundles
       THEN /\ bundles' = bundles
            /\ ret' = Raise("clear_bundle")
       ELSE /\ bundles' = DictSet(bundles, bundle, <<>>)
            /\ ret' = Return("clear_bundle", [msg |-> "Cleared bundle"])
    /\ UNCHANGED <<r_self, unit, material, length, conductor_radius, freq,
                   calc_history, avars, xvars>>

\* variant that also resets the self-GMR values to the default
clear_all_resets_r_self ==
    /\ Call
    /\ bundles' = [A |-> <<>>, B |-> <<>>, C |-> <<>>]
    /\ r_self' = [A |-> DefaultRSelf, B |-> DefaultRSelf, C |-> DefaultRSelf]
    /\ ret' = Return("clear_all", [msg |-> "All bundles cleared"])
    /\ UNCHANGED <<unit, material, length, conductor_radius, freq,
                   calc_history, avars, xvars>>

\* variant that also empties the history
clear_all_resets_history ==
    /\ Call
    /\ bundles' = [A |-> <<>>, B |-> <<>>, C |-> <<>>]
    /\ calc_history' = <<>>
    /\ ret' = Return("clear_all", [msg |-> "All bundles cleared"])
    /\ UNCHANGED <<r_self, unit, material, length, conductor_radius, freq, avars, xvars>>

clear_all ==
    /\ Call
    /\ bundles' = [A |-> <<>>, B |-> <<>>, C |-> <<>>]
    /\ ret' = Return("clear_all", [msg |-> "All bundles cleared"])
    /\ UNCHANGED <<r_self, unit, material, length, conductor_radius, freq,
                   calc_history, avars, xvars>>

\* keys of a bundles / r_self dict in insertion order ("D" can only be added last)
KeyOrder(d) == SelectSeq(<<"A", "B", "C", "D">>, LAMBDA k : k \in DOMAIN d)

NonEmptyKeys(bs) == SelectSeq(KeyOrder(bs), LAMBDA k : bs[k] # <<>>)

\* variant of the first loop whose filter is `if len(points) > 1`
GmrList_bundled_only(bs, rs) ==
    LET ks == SelectSeq(KeyOrder(bs), LAMBDA k : Len(bs[k]) > 1)
    IN  [i \in 1..Len(ks) |->
            [label |-> ks[i],
             value |-> compute_gmr(bs[ks[i]], rs[ks[i]]),
             count |-> Len(bs[ks[i]])]]

\* results["gmr"] as built by the first loop of compute_results
GmrList(bs, rs) ==
    [i \in 1..Len(NonEmptyKeys(bs)) |->
        [label |-> NonEmptyKeys(bs)[i],
         value |-> compute_gmr(bs[NonEmptyKeys(bs)[i]], rs[NonEmptyKeys(bs)[i]]),
         count |-> Len(bs[NonEmptyKeys(bs)[i]])]]

\* variant of the pair filter with `or` for `and`
PairsOf_either(bs) ==
    SelectSeq(Combinations2(KeyOrder(bs)), LAMBDA ab : bs[ab[1]] # <<>> \/ bs[ab[2]] # <<>>)

PairsOf(bs) ==
    SelectSeq(Combinations2(KeyOrder(bs)), LAMBDA ab : bs[ab[1]] # <<>> /\ bs[ab[2]] # <<>>)

\* results["gmd"] as built by the second loop of compute_results
GmdList(bs) ==
    [i \in 1..Len(PairsOf(bs)) |->
        [pair |-> PairsOf(bs)[i],
         value |-> compute_gmd(bs[PairsOf(bs)[i][1]], bs[PairsOf(bs)[i][2]])]]

RECURSIVE MaxLen(_, _)
MaxLen(bs, ks) ==
    IF ks = <<>> THEN 0
    ELSE IF Len(bs[Head(ks)]) > MaxLen(bs, Tail(ks)) THEN Len(bs[Head(ks)])
    ELSE MaxLen(bs, Tail(ks))

\* variant that takes the last non-empty phase
BundleEquivRadius_last_phase(bs, radius) ==
    LET first_bundle_points == bs[NonEmptyKeys(bs)[Len(NonEmptyKeys(bs))]]
        n_cb == Len(first_bundle_points)
        bundle_distances ==
            [i \in 1..Len(Combinations2(first_bundle_points)) |->
                distance(Combinations2(first_bundle_points)[i][1],
                         Combinations2(first_bundle_points)[i][2])]
    IN  IF n_cb = 1 THEN Plain(radius)
        ELSE TermRoot(TermProd(<<Plain(n_cb), Plain(radius),
                                 TermPow(geometric_mean(bundle_distances), n_cb - 1)>>),
                      n_cb)

\* Equivalent bundle radius of the first non-empty phase
BundleEquivRadius(bs, radius) ==
    LET first_bundle_points == bs[NonEmptyKeys(bs)[1]]
        n_cb == Len(first_bundle_points)
        bundle_distances ==
            [i \in 1..Len(Combinations2(first_bundle_points)) |->
                distance(Combinations2(first_bundle_points)[i][1],
                         Combinations2(first_bundle_points)[i][2])]
    IN  IF n_cb = 1 THEN Plain(radius)
        ELSE TermRoot(TermProd(<<Plain(n_cb), Plain(radius),
                                 TermPow(geometric_mean(bundle_distances), n_cb - 1)>>),
                      n_cb)

\* variant that evaluates the L/C formulas as soon as one phase has points
ParamsOf_lc_from_one_phase(gmr, gmd, bs) ==
    LET lc == Len(gmr) >= 1
    IN  [rho |-> MATERIALS[material],
         conductor_radius |-> conductor_radius,
         n_conductors_per_phase |-> MaxLen(bs, NonEmptyKeys(bs)),
         length |-> length,
         freq |-> freq,
         lc |-> lc,
         avg_gmd |-> IF lc THEN [i \in 1..Len(gmd) |-> gmd[i].value] ELSE <<>>,
         avg_gmr |-> IF lc THEN <<geometric_mean([i \in 1..Len(gmr) |-> gmr[i].value])>>
                     ELSE <<>>,
         r_bundle_equiv |-> IF lc THEN <<BundleEquivRadius(bs, conductor_radius)>>
                            ELSE <<>>]

\* results["params"]: the operands that determine each reported parameter
\* (R from rho, radius, n, length; L from avg_gmd, avg_gmr; C from avg_gmd,
\* r_bundle_equiv; XL, XC from freq).  avg_gmd is the list np.mean is taken of.
ParamsOf(gmr, gmd, bs) ==
    LET lc == Len(gmr) >= 2
    IN  [rho |-> MATERIALS[material],
         conductor_radius |-> conductor_radius,
         n_conductors_per_phase |-> MaxLen(bs, NonEmptyKeys(bs)),
         length |-> length,
         freq |-> freq,
         lc |-> lc,
         avg_gmd |-> IF lc THEN [i \in 1..Len(gmd) |-> gmd[i].value] ELSE <<>>,
         avg_gmr |-> IF lc THEN <<geometric_mean([i \in 1..Len(gmr) |-> gmr[i].value])>>
                     ELSE <<>>,
         r_bundle_equiv |-> IF lc THEN <<BundleEquivRadius(bs, conductor_radius)>>
                            ELSE <<>>]

\* the params of a call that runs from its first line to its last on bundles bs
Params(bs, rs) == ParamsOf(GmrList(bs, rs), GmdList(bs), bs)

(* Values of the parameters computed from the operands.  pi and the
   logarithm are not evaluated: the resistance is kept as a fraction of
   factor lists (times 1/pi, in the model's units), and L, C, XL, XC are kept
   as the class of their float value: "zero", "pos", "neg", "inf", "-inf",
   "nan", or "unknown" where the comparison of avg_gmd with the other operand
   is not decided by the integer arithmetic below. *)
\* the integer value of a term that is a whole number
RECURSIVE RootOfPrimes(_, _, _)
RootOfPrimes(ps, num, root) ==
    IF ps = {} THEN 1
    ELSE LET p == CHOOSE q \in ps : TRUE
         IN  p ^ (SumValuations(num, p) \div root) * RootOfPrimes(ps \ {p}, num, root)

TermIsWhole(t) ==
    /\ ~TermIsNegative(t)
    /\ ~TermIsZero(t) => \A p \in PrimesOf(t) : SumValuations(t.num, p) % t.root = 0

TermValue(t) == IF TermIsZero(t) THEN 0 ELSE RootOfPrimes(PrimesOf(t), t.num, t.root)

RECURSIVE SumValues(_)
SumValues(ts) == IF ts = <<>> THEN 0 ELSE TermValue(Head(ts)) + SumValues(Tail(ts))

\* np.log(np.mean(gmds) / t): x / 0 is inf and 0 / 0 is nan for numpy floats,
\* log(0) is -inf
LogOfRatio(gmds, t) ==
    LET all_zero == \A i \in 1..Len(gmds) : TermIsZero(gmds[i])
    IN  IF TermIsNegative(t) \/ \E i \in 1..Len(gmds) : TermIsNegative(gmds[i])
        THEN "unknown"
        ELSE IF TermIsZero(t) THEN (IF all_zero THEN "nan" ELSE "inf")
        ELSE IF all_zero THEN "-inf"
        ELSE IF TermIsWhole(t) /\ \A i \in 1..Len(gmds) : TermIsWhole(gmds[i])
        THEN (IF SumValues(gmds) < Len(gmds) * TermValue(t) THEN "neg"
              ELSE IF SumValues(gmds) = Len(gmds) * TermValue(t) THEN "zero"
              ELSE "pos")
        ELSE "unknown"

\* variant whose area is pi * radius
R_per_km_linear_area(params) ==
    [num |-> <<params.rho, 1000>>,
     den |-> <<params.conductor_radius, params.n_conductors_per_phase>>]

\* R_per_km = (rho * 1000) / (area * n), area = pi * radius ** 2
R_per_km(params) ==
    [num |-> <<params.rho, 1000>>,
     den |-> <<params.conductor_radius, params.conductor_radius,
               params.n_conductors_per_phase>>]

\* R_total = R_per_km * self.length
R_total(params) ==
    [num |-> R_per_km(params).num \o <<params.length>>, den |-> R_per_km(params).den]

\* L_per_km = 2e-7 * np.log(avg_gmd / avg_gmr) * 1000, or 0
L_per_km(params) ==
    IF params.lc THEN LogOfRatio(params.avg_gmd, params.avg_gmr[1]) ELSE "zero"

\* a float of class c times a length
TimesLength(c, l) == IF c = "zero" \/ l > 0 THEN c ELSE "unknown"

\* L_total = L_per_km * self.length
L_total(params) == TimesLength(L_per_km(params), params.length)

\* C_per_km = (2 * np.pi * 8.854e-12 * 1000) / np.log(avg_gmd / r_bundle_equiv), or 0
C_per_km(params) ==
    IF ~params.lc THEN "zero"
    ELSE LET log == LogOfRatio(params.avg_gmd, params.r_bundle_equiv[1])
         IN  IF log = "zero" THEN "inf"
             ELSE IF log \in {"inf", "-inf"} THEN "zero"
             ELSE log

\* C_total = C_per_km * self.length
C_total(params) == TimesLength(C_per_km(params), params.length)

\* XL = omega * L_total if L_total > 0 else 0
XL(params) ==
    IF L_total(params) = "unknown" \/ params.freq <= 0 THEN "unknown"
    ELSE IF L_total(params) \in {"pos", "inf"} THEN L_total(params)
    ELSE "zero"

\* XC = (1 / (omega * C_total)) if C_total > 0 else 0
XC(params) ==
    IF C_total(params) = "unknown" \/ params.freq <= 0 THEN "unknown"
    ELSE IF C_total(params) = "pos" THEN "pos"
    ELSE "zero"

HistoryEntry(ts, results) ==
    [timestamp |-> ts,
     config |-> [unit |-> unit, material |-> material, length_km |-> length,
                 radius_m |-> conductor_radius, frequency_hz |-> freq,
                 bundles |-> bundles, r_self_m |-> r_self],
     results |-> results]

\* variant without the no-data check
NoData_never(bs, rs) == FALSE

\* `if not gmr_values`
NoData(bs, rs) == Len(GmrList(bs, rs)) = 0

\* variant that appends a history entry for a call that raises
compute_results_logs_failure ==
    /\ Call
    /\ IF NoData(bundles, r_self)
       THEN /\ ret' = Return("compute_results",
                        [error |-> "No conductors added. Cannot calculate parameters."])
            /\ calc_history' = calc_history
            /\ held' = held
       ELSE IF conductor_radius = 0
       THEN \* (rho * 1000) / (area * n) raises ZeroDivisionError
            /\ ret' = Raise("compute_results")
            /\ calc_history' = Append(calc_history,
                                  HistoryEntry(0, [error |-> "raised"]))
            /\ held' = held
       ELSE \E ts \in Timestamps :
            LET results == [gmr |-> GmrList(bundles, r_self),
                            gmd |-> GmdList(bundles),
                            params |-> Params(bundles, r_self)]
            IN  \* the entry holds results.copy(): the same gmr, gmd and params
                \* objects as the dict returned, whose "history" key is
                \* self.calc_history itself; held says which entry that is
                /\ calc_history' = Append(calc_history, HistoryEntry(ts, results))
                /\ ret' = Return("compute_results", results)
                /\ held' = IF held = 0 THEN Len(calc_history') ELSE held
    /\ UNCHANGED <<bundles, r_self, unit, material, length, conductor_radius, freq,
                   avars, cr, core, imp>>

compute_results ==
    /\ Call
    /\ IF NoData(bundles, r_self)
       THEN /\ ret' = Return("compute_results",
                        [error |-> "No conductors added. Cannot calculate parameters."])
            /\ calc_history' = calc_history
            /\ held' = held
       ELSE IF conductor_radius = 0
       THEN \* (rho * 1000) / (area * n) raises ZeroDivisionError
            /\ ret' = Raise("compute_results")
            /\ calc_history' = calc_history
            /\ held' = held
       ELSE \E ts \in Timestamps :
            LET results == [gmr |-> GmrList(bundles, r_self),
                            gmd |-> GmdList(bundles),
                            params |-> Params(bundles, r_self)]
            IN  \* the entry holds results.copy(): the same gmr, gmd and params
                \* objects as the dict returned, whose "history" key is
                \* self.calc_history itself; held says which entry that is
                /\ calc_history' = Append(calc_history, HistoryEntry(ts, results))
                /\ ret' = Return("compute_results", results)
                /\ held' = IF held = 0 THEN Len(calc_history') ELSE held
    /\ UNCHANGED <<bundles, r_self, unit, material, length, conductor_radius, freq,
                   avars, cr, core, imp>>

(* ---------------------------- specification --------------------------- *)
Init_app ==
    /\ app_bundles = [A |-> <<>>, B |-> <<>>, C |-> <<>>]
    /\ app_r_self = [A |-> DefaultRSelf, B |-> DefaultRSelf, C |-> DefaultRSelf]
    /\ app_unit = "m"
    /\ app_material = "Copper"
    /\ app_length = 100
    /\ app_conductor_radius = UNIT_CONVERSIONS.cm
    /\ app_freq = 60
    /\ app_ret = [op |-> "__init__", status |-> "ok", value |-> [msg |-> "constructed"]]

\* no import in progress
NoImport == [data |-> [unit |-> "m", points |-> <<>>], unit0 |-> "m"]

Init_frames ==
    /\ held = 0
    /\ imp = NoImport
    /\ cr = [pc |-> "idle", gmr |-> <<>>, gmd |-> <<>>, params |-> <<>>, seen |-> <<>>]

\* no direct call of a core.py function
NoCoreCall == [fn |-> "none", b1 |-> <<>>, b2 |-> <<>>, r |-> 0, k |-> 1,
               perm |-> <<>>, values |-> <<>>, out |-> <<>>]

Init == Init_pytline /\ Init_app /\ Init_frames /\ core = NoCoreCall /\ ncalls = 0

Next ==
    \/ \E u \in UnitInputs : set_unit(u)
    \/ \E b \in PhaseInputs, v \in GmrInputs : set_self_gmr(b, v)
    \/ \E mat \in MaterialInputs, l \in LengthInputs, r \in RadiusInputs, f \in FreqInputs :
          set_line_params(mat, l, r, f)
    \/ \E x \in XInputs, y \in YInputs, b \in PhaseInputs : add_point(x, y, b)
    \/ \E b \in PhaseInputs : clear_bundle(b)
    \/ clear_all
    \/ compute_results

Spec == Init /\ [][Next]_vars

(* ------------------- the caller and the returned dict ------------------- *)
\* What the caller reads through the result it holds: results["gmr"],
\* results["gmd"] and results["params"] are the objects of history entry
\* `held`, results["history"] is the session's list.
HeldResult ==
    [gmr |-> calc_history[held].results.gmr,
     gmd |-> calc_history[held].results.gmd,
     params |-> calc_history[held].results.params,
     history |-> calc_history]

\* the caller runs results["history"].clear() and drops the result
caller_clears_history ==
    /\ Call
    /\ held # 0
    /\ calc_history' = <<>>
    /\ held' = 0
    /\ UNCHANGED <<bundles, r_self, unit, material, length, conductor_radius, freq,
                   ret, avars, cr, core, imp>>

\* the caller runs results["gmr"].clear()
caller_clears_gmr ==
    /\ Call
    /\ held # 0
    /\ calc_history' = [calc_history EXCEPT ![held].results.gmr = <<>>]
    /\ UNCHANGED <<bundles, r_self, unit, material, length, conductor_radius, freq,
                   ret, avars, xvars>>

NextCaller ==
    \/ Next
    \/ caller_clears_history
    \/ caller_clears_gmr

SpecCaller == Init /\ [][NextCaller]_vars


(* ------------- compute_results next to a second thread ----------------- *)
\* The session has no lock: a second thread's add_point, clear_bundle or
\* clear_all may run between the blocks of one compute_results call.  cr is
\* the frame of that call: its position, its locals results["gmr"],
\* results["gmd"], results["params"], and the bundles each block read.

\* first loop (lines 127-136)
cr_gmr ==
    /\ Call
    /\ cr.pc = "idle"
    /\ cr' = [pc |-> "gmd", gmr |-> GmrList(bundles, r_self), gmd |-> <<>>,
              params |-> <<>>, seen |-> <<bundles>>]
    /\ UNCHANGED <<pvars, avars, held, core, imp>>

\* variant of the second loop with `or` for `and` in its filter
cr_gmd_either ==
    /\ cr.pc = "gmd"
    /\ cr' = [cr EXCEPT !.pc = "params",
                        !.gmd = [i \in 1..Len(PairsOf_either(bundles)) |->
                                   [pair |-> PairsOf_either(bundles)[i],
                                    value |-> compute_gmd(bundles[PairsOf_either(bundles)[i][1]],
                                                          bundles[PairsOf_either(bundles)[i][2]])]],
                        !.seen = Append(@, bundles)]
    /\ UNCHANGED <<pvars, avars, held, core, ncalls, imp>>

\* second loop (lines 138-147)
cr_gmd ==
    /\ cr.pc = "gmd"
    /\ cr' = [cr EXCEPT !.pc = "params", !.gmd = GmdList(bundles),
                        !.seen = Append(@, bundles)]
    /\ UNCHANGED <<pvars, avars, held, core, ncalls, imp>>

\* no-data return, resistance, inductance, capacitance, reactances (lines 149-210)
cr_params ==
    /\ cr.pc = "params"
    /\ IF cr.gmr = <<>>
       THEN /\ ret' = Return("compute_results",
                        [error |-> "No conductors added. Cannot calculate parameters."])
            /\ cr' = [cr EXCEPT !.pc = "idle", !.seen = Append(@, bundles)]
       ELSE IF NonEmptyKeys(bundles) = <<>> \/ conductor_radius = 0
       THEN \* max() of an empty sequence raises ValueError, the zero area
            \* ZeroDivisionError
            /\ ret' = Raise("compute_results")
            /\ cr' = [cr EXCEPT !.pc = "idle", !.seen = Append(@, bundles)]
       ELSE /\ ret' = ret
            /\ cr' = [cr EXCEPT !.pc = "history",
                                !.params = <<ParamsOf(cr.gmr, cr.gmd, bundles)>>,
                                !.seen = Append(@, bundles)]
    /\ UNCHANGED <<bundles, r_self, unit, material, length, conductor_radius, freq,
                   calc_history, avars, held, core, ncalls, imp>>

\* history entry and return (lines 212-229)
cr_history ==
    /\ cr.pc = "history"
    /\ \E ts \in Timestamps :
          LET results == [gmr |-> cr.gmr, gmd |-> cr.gmd, params |-> cr.params[1]]
          IN  /\ calc_history' = Append(calc_history, HistoryEntry(ts, results))
              /\ ret' = Return("compute_results", results)
    /\ held' = IF held = 0 THEN Len(calc_history') ELSE held
    /\ cr' = [cr EXCEPT !.pc = "idle", !.seen = Append(@, bundles)]
    /\ UNCHANGED <<bundles, r_self, unit, material, length, conductor_radius, freq,
                   avars, core, ncalls, imp>>

NextConc ==
    \/ \E x \in XInputs, y \in YInputs, b \in PhaseInputs : add_point(x, y, b)
    \/ \E b \in PhaseInputs : clear_bundle(b)
    \/ clear_all
    \/ cr_gmr
    \/ cr_gmd
    \/ cr_params
    \/ cr_history

SpecConc == Init /\ [][NextConc]_vars


(* ---------------------- end-to-end scenario ---------------------- *)
\* The calls of the scenario: set_unit, three set_self_gmr, set_line_params,
\* three add_point and compute_results, with the scenario's arguments.  They
\* are offered in any order and any number of times within ScenarioCalls
\* calls, up to the first compute_results that returns parameters, so the
\* scenario itself is one of the behaviours; the call counter starts
\* ScenarioCalls below its bound.
ScenarioCalls == 1 + 3 + 1 + 3 + 1
ScenarioGmr == Dec(35, 1000)
ScenarioPoints ==
    [A |-> <<Num(0 - 20), Num(0)>>, B |-> <<Num(0), Num(0)>>, C |-> <<Num(20), Num(0)>>]

InitScenario ==
    /\ Init_pytline /\ Init_app /\ Init_frames /\ core = NoCoreCall
    /\ ncalls = MaxCalls - ScenarioCalls

NextScenario ==
    \/ calc_history = <<>> /\ set_unit("m")
    \/ calc_history = <<>>
          /\ \E p \in DOMAIN ScenarioPoints : set_self_gmr(p, ScenarioGmr)
    \/ calc_history = <<>>
          /\ set_line_params("ACSR", Num(150), Dec(4, 100), Num(60))
    \/ calc_history = <<>>
          /\ \E p \in DOMAIN ScenarioPoints :
                add_point(ScenarioPoints[p][1], ScenarioPoints[p][2], p)
    \/ calc_history = <<>> /\ compute_results

SpecScenario == InitScenario /\ [][NextScenario]_vars

(* -------------------- resistance of a line --------------------- *)
\* Sessions whose line parameters take a length and its double, a radius and
\* its double, over two materials, with up to MaxPts points in two phases.
ResistanceLengths == {Num(100), Num(200)}
ResistanceRadii == {Dec(1, 100), Dec(2, 100)}

NextResistance ==
    \/ \E x \in {Num(0), Num(1)}, b \in {"A", "B"} : add_point(x, Num(1), b)
    \/ \E mat \in {"Copper", "ACSR"}, l \in ResistanceLengths, r \in ResistanceRadii :
          set_line_params(mat, l, r, Num(60))
    \/ compute_results

SpecResistance == Init /\ [][NextResistance]_vars

(* ------------------ direct calls of the core.py functions --------------- *)
\* Arguments: points on a centimetre lattice, two self-GMR values, two scale
\* factors; the first bundle has up to MaxBundle points, the second up to
\* MaxPts.
CorePoints ==
    {<<0, 0>>, <<UNIT_CONVERSIONS.cm, 0>>, <<0, UNIT_CONVERSIONS.cm>>,
     <<2 * UNIT_CONVERSIONS.cm, UNIT_CONVERSIONS.cm>>}
CoreRSelf == {DefaultRSelf, UNIT_CONVERSIONS.mm}
CoreScales == {2, 3}

SeqsUpTo(S, n) == UNION {[1..m -> S] : m \in 0..n}

Scaled(b, k) == [i \in 1..Len(b) |-> <<k * b[i][1], k * b[i][2]>>]
Permuted(b, perm) == [i \in 1..Len(b) |-> b[perm[i]]]

CoreCalls ==
    {[NoCoreCall EXCEPT !.fn = "compute_gmd", !.b1 = b1, !.b2 = b2, !.k = k] :
        b1 \in SeqsUpTo(CorePoints, MaxBundle), b2 \in SeqsUpTo(CorePoints, MaxPts),
        k \in CoreScales}
    \cup
    {[NoCoreCall EXCEPT !.fn = "compute_gmr", !.b1 = b1, !.r = r, !.k = k] :
        b1 \in SeqsUpTo(CorePoints, MaxBundle), r \in CoreRSelf, k \in CoreScales}
    \cup
    UNION {{[NoCoreCall EXCEPT !.fn = "compute_gmr_permuted", !.b1 = b1, !.r = r,
                               !.perm = perm] :
               perm \in Permutations(1..Len(b1)), r \in CoreRSelf} :
            b1 \in SeqsUpTo(CorePoints, MaxBundle)}
    \cup
    {[NoCoreCall EXCEPT !.fn = "geometric_mean", !.values = values] :
        values \in SeqsUpTo({Plain(r) : r \in CoreRSelf}, MaxPts)}

InitCore ==
    /\ Init_pytline /\ Init_app /\ Init_frames /\ ncalls = 0
    /\ core \in CoreCalls

\* compute_gmd on the bundles as given, swapped, and scaled by k
call_compute_gmd ==
    /\ core.fn = "compute_gmd" /\ core.out = <<>>
    /\ core' = [core EXCEPT !.out =
                  <<[gmd |-> compute_gmd(core.b1, core.b2),
                     gmd_swapped |-> compute_gmd(core.b2, core.b1),
                     gmd_scaled |-> compute_gmd(Scaled(core.b1, core.k),
                                                Scaled(core.b2, core.k))]>>]
    /\ UNCHANGED <<pvars, avars, ncalls, held, cr, imp>>

\* compute_gmr on the bundle as given, scaled by k, and scaled with r_self
call_compute_gmr ==
    /\ core.fn = "compute_gmr" /\ core.out = <<>>
    /\ core' = [core EXCEPT !.out =
                  <<[gmr |-> compute_gmr(core.b1, core.r),
                     gmr_scaled |-> compute_gmr(Scaled(core.b1, core.k), core.r),
                     gmr_all_scaled |-> compute_gmr(Scaled(core.b1, core.k),
                                                    core.k * core.r)]>>]
    /\ UNCHANGED <<pvars, avars, ncalls, held, cr, imp>>

\* compute_gmr on the bundle as given and on a permutation of it
call_compute_gmr_permuted ==
    /\ core.fn = "compute_gmr_permuted" /\ core.out = <<>>
    /\ core' = [core EXCEPT !.out =
                  <<[gmr |-> compute_gmr(core.b1, core.r),
                     gmr_permuted |-> compute_gmr(Permuted(core.b1, core.perm),
                                                  core.r)]>>]
    /\ UNCHANGED <<pvars, avars, ncalls, held, cr, imp>>

call_geometric_mean ==
    /\ core.fn = "geometric_mean" /\ core.out = <<>>
    /\ core' = [core EXCEPT !.out = <<[gm |-> geometric_mean(core.values)]>>]
    /\ UNCHANGED <<pvars, avars, ncalls, held, cr, imp>>

NextCore ==
    \/ call_geometric_mean
    \/ call_compute_gmd
    \/ call_compute_gmr
    \/ call_compute_gmr_permuted

SpecCore == InitCore /\ [][NextCore]_vars


(* ---------------------------- GMDGMRApp ------------------------------- *)
\* The message reports success whether or not u is a key of the table.
GMDGMRApp_set_unit(u) ==
    /\ Call
    /\ app_unit' = IF u \in DOMAIN UNIT_CONVERSIONS THEN u ELSE app_unit
    /\ app_ret' = Return("set_unit", [msg |-> "Units set to", u |-> u])
    /\ UNCHANGED <<app_bundles, app_r_self, app_material, app_length,
                   app_conductor_radius, app_freq, pvars, xvars>>

\* gmr_value = float(val) * 0.7788 * UNIT_CONVERSIONS[self.unit]
GMDGMRApp_set_gmr(bundle, val) ==
    /\ Call
    /\ IF ~CanFloat(val)
       THEN /\ app_r_self' = app_r_self
            /\ app_ret' = Raise("set_gmr")
       ELSE /\ app_r_self' = DictSet(app_r_self, bundle,
                               Float(val) * 7788 * (UNIT_CONVERSIONS[app_unit] \div 10000))
            /\ app_ret' = Return("set_gmr", [msg |-> "Set GMR"])
    /\ UNCHANGED <<app_bundles, app_unit, app_material, app_length,
                   app_conductor_radius, app_freq, pvars, xvars>>

GMDGMRApp_set_line_params(material_in, length_in, radius, freq_in) ==
    /\ Call
    /\ app_material' = material_in
    /\ IF ~CanFloat(length_in)
       THEN /\ UNCHANGED <<app_length, app_conductor_radius, app_freq>>
            /\ app_ret' = Raise("set_line_params")
       ELSE IF ~CanFloat(radius)
       THEN /\ app_length' = Float(length_in)
            /\ UNCHANGED <<app_conductor_radius, app_freq>>
            /\ app_ret' = Raise("set_line_params")
       ELSE IF ~CanFloat(freq_in)
       THEN /\ app_length' = Float(length_in)
            /\ app_conductor_radius' = FloatTimes(radius, UNIT_CONVERSIONS.m)
            /\ UNCHANGED app_freq
            /\ app_ret' = Raise("set_line_params")
       ELSE /\ app_length' = Float(length_in)
            /\ app_conductor_radius' = FloatTimes(radius, UNIT_CONVERSIONS.m)
            /\ app_freq' = Float(freq_in)
            /\ app_ret' = Return("set_line_params", [msg |-> "Parameters updated"])
    /\ UNCHANGED <<app_bundles, app_r_self, app_unit, pvars, xvars>>

\* variant that converts with the factor of the metre whatever the unit
GMDGMRApp_add_point_in_metres(x, y, bundle) ==
    /\ Call
    /\ IF ~CanFloat(x) \/ ~CanFloat(y)
       THEN /\ app_bundles' = app_bundles
            /\ app_ret' = Raise("add_point")
       ELSE IF bundle \notin DOMAIN app_bundles
       THEN /\ app_bundles' = app_bundles
            /\ app_ret' = Raise("add_point")
       ELSE /\ Len(app_bundles[bundle]) < MaxPts
            /\ app_bundles' = DictSet(app_bundles, bundle,
                                Append(app_bundles[bundle],
                                       <<FloatTimes(x, UNIT_CONVERSIONS.m),
                                         FloatTimes(y, UNIT_CONVERSIONS.m)>>))
            /\ app_ret' = Return("add_point", [msg |-> "ok"])
    /\ UNCHANGED <<app_r_self, app_unit, app_material, app_length,
                   app_conductor_radius, app_freq, pvars, xvars>>

\* self.bundles[bundle] raises KeyError for a label that is no key
GMDGMRApp_add_point(x, y, bundle) ==
    /\ Call
    /\ IF ~CanFloat(x) \/ ~CanFloat(y)
       THEN /\ app_bundles' = app_bundles
            /\ app_ret' = Raise("add_point")
       ELSE IF bundle \notin DOMAIN app_bundles
       THEN /\ app_bundles' = app_bundles
            /\ app_ret' = Raise("add_point")
       ELSE /\ Len(app_bundles[bundle]) < MaxPts
            /\ app_bundles' = DictSet(app_bundles, bundle,
                                Append(app_bundles[bundle],
                                       <<FloatTimes(x, UNIT_CONVERSIONS[app_unit]),
                                         FloatTimes(y, UNIT_CONVERSIONS[app_unit])>>))
            /\ app_ret' = Return("add_point", [msg |-> "ok"])
    /\ UNCHANGED <<app_r_self, app_unit, app_material, app_length,
                   app_conductor_radius, app_freq, pvars, xvars>>

GMDGMRApp_clear_bundle(bundle) ==
    /\ Call
    /\ app_bundles' = DictSet(app_bundles, bundle, <<>>)
    /\ app_ret' = Return("clear_bundle", [msg |-> "Cleared"])
    /\ UNCHANGED <<app_r_self, app_unit, app_material, app_length,
                   app_conductor_radius, app_freq, pvars, xvars>>

GMDGMRApp_clear_all ==
    /\ Call
    /\ app_bundles' = [A |-> <<>>, B |-> <<>>, C |-> <<>>]
    /\ app_ret' = Return("clear_all", [msg |-> "All cleared"])
    /\ UNCHANGED <<app_r_self, app_unit, app_material, app_length,
                   app_conductor_radius, app_freq, pvars, xvars>>

NextApp ==
    \/ \E u \in UnitInputs : GMDGMRApp_set_unit(u)
    \/ \E b \in PhaseInputs, v \in GmrInputs : GMDGMRApp_set_gmr(b, v)
    \/ \E mat \in MaterialInputs, l \in LengthInputs, r \in RadiusInputs, f \in FreqInputs :
          GMDGMRApp_set_line_params(mat, l, r, f)
    \/ \E x \in XInputs, y \in YInputs, b \in PhaseInputs : GMDGMRApp_add_point(x, y, b)
    \/ \E b \in PhaseInputs : GMDGMRApp_clear_bundle(b)
    \/ GMDGMRApp_clear_all

SpecApp == Init /\ [][NextApp]_vars

(* ------------------------- handleImport (UI) -------------------------- *)
\* handleImport restores a session file: it awaits the backend calls
\* clear_all, add_point for each point of data.bundles, then updateUnit
\* (set_unit), updateLineParams (set_line_params) and setGMRs (set_gmr for A,
\* B, C), one after the other.  The results refresh that follows
\* set_line_params and set_gmr writes neither the unit nor the bundles and is
\* left out.  imp.data is the parsed file, imp.unit0 the unit the backend had
\* when the import started; the call counter starts ImportCalls below its
\* bound, so the calls made so far tell the position in handleImport.
ImportCoordinates == {<<Num(0), Num(0)>>, <<Num(1), Num(0)>>, <<Num(0), Num(1)>>}
ImportSettings ==
    [material |-> "ACSR", length |-> Num(150), radius |-> Dec(4, 100),
     freq |-> Num(50), gmr |-> Num(2)]

\* the points of data.bundles in file order: those of one phase are adjacent
Grouped(pts) ==
    \A i, j, k \in 1..Len(pts) :
        (i < j /\ j < k /\ pts[i].bundle = pts[k].bundle) => pts[j].bundle = pts[i].bundle

ImportFiles ==
    {[unit |-> u, points |-> pts] :
        u \in UnitInputs,
        pts \in {q \in SeqsUpTo({[x |-> c[1], y |-> c[2], bundle |-> b] :
                                    c \in ImportCoordinates, b \in {"A", "B"}}, MaxPts) :
                   Grouped(q)}}

ImportCalls(data) == 1 + Len(data.points) + 1 + 1 + 3
ImportCallsMade == ImportCalls(imp.data) - (MaxCalls - ncalls)

\* a backend with any unit of the table and with or without an earlier point
InitImport ==
    /\ Init_pytline /\ core = NoCoreCall /\ held = 0
    /\ cr = [pc |-> "idle", gmr |-> <<>>, gmd |-> <<>>, params |-> <<>>, seen |-> <<>>]
    /\ app_unit \in DOMAIN UNIT_CONVERSIONS
    /\ app_bundles \in {[A |-> <<>>, B |-> <<>>, C |-> <<>>],
                        [A |-> << <<UNIT_CONVERSIONS[app_unit], 0>> >>, B |-> <<>>,
                         C |-> <<>>]}
    /\ app_r_self = [A |-> DefaultRSelf, B |-> DefaultRSelf, C |-> DefaultRSelf]
    /\ app_material = "Copper"
    /\ app_length = 100
    /\ app_conductor_radius = UNIT_CONVERSIONS.cm
    /\ app_freq = 60
    /\ app_ret = [op |-> "__init__", status |-> "ok", value |-> [msg |-> "constructed"]]
    /\ \E data \in ImportFiles :
          /\ imp = [data |-> data, unit0 |-> app_unit]
          /\ ncalls = MaxCalls - ImportCalls(data)

\* await pywebview.api.clear_all()
import_clear_all ==
    /\ ImportCallsMade = 0
    /\ GMDGMRApp_clear_all

\* await pywebview.api.add_point(x, y, bundle), for the next point of the file
import_add_point ==
    /\ ImportCallsMade \in 1..Len(imp.data.points)
    /\ GMDGMRApp_add_point(imp.data.points[ImportCallsMade].x,
                           imp.data.points[ImportCallsMade].y,
                           imp.data.points[ImportCallsMade].bundle)

\* await updateUnit()
import_updateUnit ==
    /\ ImportCallsMade = Len(imp.data.points) + 1
    /\ GMDGMRApp_set_unit(imp.data.unit)

\* await updateLineParams()
import_updateLineParams ==
    /\ ImportCallsMade = Len(imp.data.points) + 2
    /\ GMDGMRApp_set_line_params(ImportSettings.material, ImportSettings.length,
                                 ImportSettings.radius, ImportSettings.freq)

\* await setGMRs()
import_setGMRs ==
    /\ ImportCallsMade \in (Len(imp.data.points) + 3)..(Len(imp.data.points) + 5)
    /\ GMDGMRApp_set_gmr(<<"A", "B", "C">>[ImportCallsMade - Len(imp.data.points) - 2],
                         ImportSettings.gmr)

NextImport ==
    \/ import_clear_all
    \/ import_add_point
    \/ import_updateUnit
    \/ import_updateLineParams
    \/ import_setGMRs

SpecImport == InitImport /\ [][NextImport]_vars

(* ====================================================================== *)
(* Properties                                                             *)
(* ====================================================================== *)
Phases == {"A", "B", "C"}
BadUnits == UnitInputs \ DOMAIN UNIT_CONVERSIONS
BadPhases == PhaseInputs \ Phases

\* C1: a rejected pytline_calc.set_line_params leaves material, length,
\* conductor_radius and freq all unchanged, whichever argument is invalid.
C1_SetLineParamsRejectsAtomically ==
    [][(ncalls' # ncalls /\ ret'.op = "set_line_params" /\ ret'.status = "raise")
         => UNCHANGED <<material, length, conductor_radius, freq>>]_vars

\* C2: set_unit with an unknown unit, set_self_gmr / add_point / clear_bundle
\* with an unknown phase, and set_self_gmr / add_point with a non-numeric value
\* are rejected, and unit, bundles, self-GMR values, line parameters and
\* history are what they were before the call.
C2_Rejected ==
    /\ ret'.status = "raise"
    /\ UNCHANGED <<bundles, r_self, unit, material, length, conductor_radius,
                   freq, calc_history>>

C2_SettersRejectBeforeMutating ==
    [][/\ \A u \in BadUnits : (ret'.op = "set_unit" /\ set_unit(u)) => C2_Rejected
       /\ \A b \in PhaseInputs, v \in GmrInputs :
            (ret'.op = "set_self_gmr" /\ (b \in BadPhases \/ ~v.numeric)
               /\ set_self_gmr(b, v)) => C2_Rejected
       /\ \A x \in XInputs, y \in YInputs, b \in PhaseInputs :
            (ret'.op = "add_point" /\ (b \in BadPhases \/ ~x.numeric \/ ~y.numeric)
               /\ add_point(x, y, b)) => C2_Rejected
       /\ \A b \in BadPhases :
            (ret'.op = "clear_bundle" /\ clear_bundle(b)) => C2_Rejected]_vars

\* a rejected setter call has happened on a session that holds a point and a
\* changed unit
C2_Witness ==
    /\ ret.status = "raise"
    /\ ret.op \in {"set_unit", "set_self_gmr", "add_point", "clear_bundle"}
    /\ unit # "m"
    /\ \E p \in Phases : bundles[p] # <<>>

\* C3: every GMDGMRApp setter rejects invalid input before any mutation:
\* set_unit with an unknown unit does not report success, set_line_params does
\* not store an unknown material, and clear_bundle / set_gmr with a phase other
\* than A, B, C never add a key to bundles or r_self.
C3_AppSettersReject ==
    /\ (app_ret.op = "set_unit" /\ app_ret.status = "ok")
          => app_ret.value.u \in DOMAIN UNIT_CONVERSIONS
    /\ app_material \in DOMAIN MATERIALS
    /\ DOMAIN app_bundles = Phases
    /\ DOMAIN app_r_self = Phases

\* C4: in every reachable state the pytline_calc session has exactly the three
\* bundles A, B, C and exactly one self-GMR value for each of A, B, C.
C4_ThreeBundlesThreeSelfGmr ==
    /\ DOMAIN bundles = Phases
    /\ DOMAIN r_self = Phases

\* a rejected call with an unknown phase has happened after accepted calls
C4_Witness ==
    /\ ret.op \in {"clear_bundle", "set_self_gmr", "add_point"}
    /\ ret.status = "raise"
    /\ \E p \in Phases : bundles[p] # <<>>
    /\ \E p \in Phases : r_self[p] # DefaultRSelf

\* C5: unit conversion happens once, at entry: add_point appends (x*f, y*f)
\* and set_self_gmr stores v*f with f the table factor of the unit current at
\* that call; a later set_unit changes no stored point and no stored self-GMR,
\* and no other step rewrites a stored point.
C5_TableIsFixed ==
    /\ DOMAIN UNIT_CONVERSIONS = {"m", "ft", "inch", "cm", "mm"}
    /\ UNIT_CONVERSIONS.m % 10000 = 0
    /\ UNIT_CONVERSIONS.ft = (UNIT_CONVERSIONS.m \div 10000) * 3048
    /\ UNIT_CONVERSIONS.inch = (UNIT_CONVERSIONS.m \div 10000) * 254
    /\ UNIT_CONVERSIONS.cm * 100 = UNIT_CONVERSIONS.m
    /\ UNIT_CONVERSIONS.mm * 1000 = UNIT_CONVERSIONS.m

C5_ConvertOnceAtEntry ==
    [][/\ C5_TableIsFixed
       /\ \A x \in XInputs, y \in YInputs, b \in Phases :
            (ret'.op = "add_point" /\ x.numeric /\ y.numeric /\ add_point(x, y, b))
               => bundles'[b] = Append(bundles[b], <<x.val * UNIT_CONVERSIONS[unit],
                                                     y.val * UNIT_CONVERSIONS[unit]>>)
       /\ \A b \in Phases, v \in GmrInputs :
            (ret'.op = "set_self_gmr" /\ v.numeric /\ set_self_gmr(b, v))
               => r_self'[b] = v.val * UNIT_CONVERSIONS[unit]
       /\ (unit' # unit) => UNCHANGED <<bundles, r_self>>
       /\ \A p \in Phases :
            \/ bundles'[p] = bundles[p]
            \/ bundles'[p] = <<>>
            \/ /\ Len(bundles'[p]) = Len(bundles[p]) + 1
               /\ SubSeq(bundles'[p], 1, Len(bundles[p])) = bundles[p]
       /\ \A p \in Phases :
            r_self'[p] # r_self[p] => (ret'.op = "set_self_gmr" /\ ret'.status = "ok")]_vars

\* the unit was switched after a point and a self-GMR were stored under another unit
C5_Witness ==
    /\ ret.op = "set_unit" /\ ret.status = "ok"
    /\ \E p \in Phases :
         /\ bundles[p] # <<>>
         /\ bundles[p][1][2] # UNIT_CONVERSIONS[unit]
         /\ bundles[p][1][2] # UNIT_CONVERSIONS.m
    /\ \E p \in Phases : r_self[p] \notin {0, DefaultRSelf, 2 * UNIT_CONVERSIONS[unit]}

\* C6: clear_bundle(p) empties bundle p and leaves the other bundles, the
\* self-GMR values, the unit, the line parameters and the history unchanged;
\* clear_all empties all three bundles and leaves the rest unchanged.
C6_ClearFrame ==
    [][/\ \A b \in Phases :
            clear_bundle(b)
               => /\ bundles'[b] = <<>>
                  /\ \A q \in Phases \ {b} : bundles'[q] = bundles[q]
                  /\ DOMAIN bundles' = DOMAIN bundles
                  /\ UNCHANGED <<r_self, unit, material, length, conductor_radius,
                                 freq, calc_history>>
       /\ (ncalls' # ncalls /\ ret'.op = "clear_all")
               => /\ \A q \in Phases : bundles'[q] = <<>>
                  /\ UNCHANGED <<r_self, unit, material, length, conductor_radius,
                                 freq, calc_history>>]_vars

\* a bundle was cleared while another bundle holds points, a self-GMR was set
\* and the history is not empty
C6_Witness ==
    /\ ret.op = "clear_bundle" /\ ret.status = "ok"
    /\ \E p, q \in Phases : bundles[p] = <<>> /\ bundles[q] # <<>>
    /\ calc_history # <<>>
    /\ \E p \in Phases : r_self[p] # DefaultRSelf

\* C7: the gmr list returned by compute_results has exactly one entry for each
\* phase that has at least one point, none for an empty phase, and each entry's
\* count is the number of points stored in that phase's bundle.
C7_GmrEntries ==
    (ret.op = "compute_results" /\ ret.status = "ok" /\ "gmr" \in DOMAIN ret.value)
       => LET gmr == ret.value.gmr
          IN  /\ {gmr[i].label : i \in 1..Len(gmr)} = {p \in Phases : bundles[p] # <<>>}
              /\ \A i, j \in 1..Len(gmr) : gmr[i].label = gmr[j].label => i = j
              /\ \A i \in 1..Len(gmr) : gmr[i].count = Len(bundles[gmr[i].label])

\* a result for a session with an empty phase and a phase of two points
C7_Witness ==
    /\ ret.op = "compute_results" /\ ret.status = "ok" /\ "gmr" \in DOMAIN ret.value
    /\ \E p, q \in Phases : bundles[p] = <<>> /\ Len(bundles[q]) = 2

\* C8: the gmd list returned by compute_results has exactly one entry for each
\* unordered pair of phases whose bundles are both non-empty and none for a
\* pair with an empty bundle: 0, 1 or 3 entries for 1, 2 or 3 phases with points.
C8_NonEmptyCount == Cardinality({p \in Phases : bundles[p] # <<>>})

C8_GmdEntries ==
    (ret.op = "compute_results" /\ ret.status = "ok" /\ "gmd" \in DOMAIN ret.value)
       => LET gmd == ret.value.gmd
          IN  /\ {gmd[i].pair : i \in 1..Len(gmd)}
                   = {ab \in {<<"A", "B">>, <<"A", "C">>, <<"B", "C">>} :
                         bundles[ab[1]] # <<>> /\ bundles[ab[2]] # <<>>}
              /\ \A i, j \in 1..Len(gmd) : gmd[i].pair = gmd[j].pair => i = j
              /\ C8_NonEmptyCount = 1 => Len(gmd) = 0
              /\ C8_NonEmptyCount = 2 => Len(gmd) = 1
              /\ C8_NonEmptyCount = 3 => Len(gmd) = 3

\* a result for a session whose three phases all hold points
C8_Witness ==
    /\ ret.op = "compute_results" /\ ret.status = "ok" /\ "gmd" \in DOMAIN ret.value
    /\ C8_NonEmptyCount = 3

\* C9: compute_results with all three bundles empty returns an explicit
\* no-data result that carries no parameters, and does not raise.
C9_NoDataResult ==
    (ret.op = "compute_results" /\ \A p \in DOMAIN bundles : bundles[p] = <<>>)
       => /\ ret.status = "ok"
          /\ "error" \in DOMAIN ret.value
          /\ "params" \notin DOMAIN ret.value

\* no-data after points were placed and cleared again, with a zero radius set
C9_Witness ==
    /\ ret.op = "compute_results"
    /\ \A p \in DOMAIN bundles : bundles[p] = <<>>
    /\ conductor_radius = 0
    /\ ncalls >= 2

\* C10: the history is append-only: a compute_results call that returns
\* parameters appends exactly one snapshot at the end, and every step leaves the
\* earlier history as a prefix of the later one.
C10_HistoryAppendOnly ==
    [][/\ Len(calc_history') >= Len(calc_history)
       /\ SubSeq(calc_history', 1, Len(calc_history)) = calc_history
       /\ (ncalls' # ncalls /\ ret'.op = "compute_results" /\ ret'.status = "ok"
             /\ "params" \in DOMAIN ret'.value)
            => /\ Len(calc_history') = Len(calc_history) + 1
               /\ calc_history'[Len(calc_history')].results.params = ret'.value.params]_vars

\* two snapshots are recorded and a bundle was cleared afterwards
C10_Witness ==
    /\ Len(calc_history) >= 2
    /\ ret.op \in {"clear_bundle", "clear_all"} /\ ret.status = "ok"

\* C11: the snapshot appended by compute_results records the unit, material,
\* length, radius, frequency, three bundles and three self-GMR values the
\* session has at the moment of the call, and it is a copy: no later call
\* changes the configuration of a snapshot already recorded.
C11_SnapshotIsACopy ==
    [][/\ \A i \in 1..Len(calc_history) :
            /\ i <= Len(calc_history')
            /\ calc_history'[i].config = calc_history[i].config
       /\ (ncalls' # ncalls /\ ret'.op = "compute_results" /\ ret'.status = "ok"
             /\ "params" \in DOMAIN ret'.value)
            => calc_history'[Len(calc_history')].config =
                 [unit |-> unit, material |-> material, length_km |-> length,
                  radius_m |-> conductor_radius, frequency_hz |-> freq,
                  bundles |-> bundles, r_self_m |-> r_self]]_vars

\* a point was added to a bundle after a snapshot of that bundle was recorded
C11_Witness ==
    /\ calc_history # <<>>
    /\ ret.op = "add_point" /\ ret.status = "ok"
    /\ \E p \in Phases :
          /\ calc_history[1].config.bundles[p] # <<>>
          /\ Len(bundles[p]) > Len(calc_history[1].config.bundles[p])

\* C12: nothing the session owns is aliased outside it: a caller that mutates
\* the structure compute_results returned changes neither the history log nor
\* any other state of the session, and a later compute_results call does not
\* change a result returned earlier.
C12_NoAliasing ==
    [][/\ (caller_clears_history \/ caller_clears_gmr) => UNCHANGED pvars
       /\ (held # 0 /\ compute_results) => HeldResult' = HeldResult]_vars

\* C13: whenever compute_results derives parameters from a session with points,
\* the physical radius and the self-GMR of every phase with points are
\* strictly positive: a zero or negative value given to set_self_gmr or as
\* the radius of set_line_params never reaches the derivation.
C13_PositiveWhenUsed ==
    (ret.op = "compute_results" /\ \E p \in DOMAIN bundles : bundles[p] # <<>>)
       => /\ conductor_radius > 0
          /\ \A p \in DOMAIN bundles : bundles[p] # <<>> => r_self[p] > 0

\* C14: a compute_results call on a session with points always returns the
\* GMR and GMD entries, also when the resistance / inductance / capacitance
\* step fails.
C14_GmrGmdSurviveFailure ==
    (ret.op = "compute_results" /\ \E p \in DOMAIN bundles : bundles[p] # <<>>)
       => /\ ret.status = "ok"
          /\ "gmr" \in DOMAIN ret.value
          /\ "gmd" \in DOMAIN ret.value

\* With two or more phases: ln(avg_gmd / avg_gmr) is infinite or undefined when
\* avg_gmr is zero (a coincident pair inside a phase, or a zero self-GMR) or
\* when avg_gmd is zero (every GMD is); the capacitance 2 pi eps0 / ln(avg_gmd /
\* r_bundle_equiv) is infinite when avg_gmd equals r_bundle_equiv.
InfiniteOrUndefined(results) ==
    /\ results.params.lc
    /\ \/ TermIsZero(results.params.avg_gmr[1])
       \/ \A i \in 1..Len(results.params.avg_gmd) : TermIsZero(results.params.avg_gmd[i])
       \/ /\ Len(results.params.avg_gmd) = 1
          /\ TermEq(results.params.avg_gmd[1], results.params.r_bundle_equiv[1])

\* C15: compute_results never returns an infinite or undefined parameter: a
\* session whose coincident points (within a phase or across two phases) make
\* avg_GMR or avg_GMD zero, or whose avg_GMD equals the equivalent bundle
\* radius, gets an error instead of parameters.
C15_NoDegenerateParams ==
    (ret.op = "compute_results" /\ ret.status = "ok" /\ "params" \in DOMAIN ret.value)
       => ~InfiniteOrUndefined(ret.value)

\* what one uninterrupted call returns on the bundles and self-GMR values of cfg
SingleStateResult(cfg) ==
    [gmr |-> GmrList(cfg.bundles, cfg.r_self_m),
     gmd |-> GmdList(cfg.bundles),
     params |-> Params(cfg.bundles, cfg.r_self_m)]

\* C16: there is no lock, so a compute_results call that a second thread's
\* add_point / clear_bundle / clear_all interleaves with can return parts
\* computed from different bundle states (the witness); a call whose blocks all
\* read the same bundles, as every serialized call does, returns exactly what
\* the single state recorded in its snapshot yields.
C16_SerializedIsConsistent ==
    (/\ ret.op = "compute_results" /\ ret.status = "ok" /\ "params" \in DOMAIN ret.value
     /\ cr.pc = "idle" /\ Len(cr.seen) = 4
     /\ \A i \in 1..Len(cr.seen) : cr.seen[i] = cr.seen[1])
       => ret.value = SingleStateResult(calc_history[Len(calc_history)].config)

\* a returned result whose GMR entries count other points than its snapshot
\* and its GMD entries were computed from
C16_Witness ==
    /\ ret.op = "compute_results" /\ ret.status = "ok" /\ "params" \in DOMAIN ret.value
    /\ cr.pc = "idle" /\ Len(cr.seen) = 4
    /\ ret.value.gmr # GmrList(calc_history[Len(calc_history)].config.bundles, r_self)
    /\ ret.value.gmd # GmdList(cr.seen[1])
    /\ ret.value.gmd # <<>>

\* C17: scaling every coordinate of every bundle by k > 0, with the self-GMR
\* left as configured, scales every GMR and every GMD computed for non-empty
\* bundles by exactly k.
C17_ScaleCovariance ==
    core.out # <<>> =>
       /\ (core.fn = "compute_gmd" /\ core.b1 # <<>> /\ core.b2 # <<>>)
            => TermEq(core.out[1].gmd_scaled, TermScale(core.k, core.out[1].gmd))
       /\ (core.fn = "compute_gmr" /\ core.b1 # <<>>)
            => TermEq(core.out[1].gmr_scaled, TermScale(core.k, core.out[1].gmr))

\* C17 (amended): scaling every coordinate by k scales the GMD of two non-empty
\* bundles by k, and scales the GMR of a non-empty bundle by k when its self-GMR
\* is scaled by k as well; with the self-GMR left as configured the GMR of an
\* n-point bundle scales by k^((n-1)/n), so that of one point does not change.
C17_ScaleCovarianceAmended ==
    core.out # <<>> =>
       /\ (core.fn = "compute_gmd" /\ core.b1 # <<>> /\ core.b2 # <<>>)
            => TermEq(core.out[1].gmd_scaled, TermScale(core.k, core.out[1].gmd))
       /\ (core.fn = "compute_gmr" /\ core.b1 # <<>>)
            => /\ TermEq(core.out[1].gmr_all_scaled,
                         TermScale(core.k, core.out[1].gmr))
               /\ TermEq(TermPow(core.out[1].gmr_scaled, Len(core.b1)),
                         TermProd(<<TermPow(Plain(core.k), Len(core.b1) - 1),
                                    TermPow(core.out[1].gmr, Len(core.b1))>>))
               /\ Len(core.b1) = 1 => core.out[1].gmr_scaled = core.out[1].gmr

\* a bundle of three distinct points was scaled, and its GMR is not k times
\* the unscaled one
C17_Witness ==
    /\ core.fn = "compute_gmr" /\ core.out # <<>>
    /\ Len(core.b1) = 3
    /\ ~TermIsZero(core.out[1].gmr)
    /\ ~TermEq(core.out[1].gmr_scaled, TermScale(core.k, core.out[1].gmr))

\* C18: compute_gmr of a one-point bundle is the self-GMR itself, so the GMR
\* entry compute_results returns for a phase with one point equals the
\* self-GMR stored for that phase.
C18_SingleConductorIdentity ==
    (ret.op = "compute_results" /\ ret.status = "ok" /\ "gmr" \in DOMAIN ret.value)
       => \A i \in 1..Len(ret.value.gmr) :
             ret.value.gmr[i].count = 1
                => ret.value.gmr[i].value = Plain(r_self[ret.value.gmr[i].label])

\* a result with a one-point phase whose self-GMR was set by the caller
C18_Witness ==
    /\ ret.op = "compute_results" /\ ret.status = "ok" /\ "gmr" \in DOMAIN ret.value
    /\ \E i \in 1..Len(ret.value.gmr) :
          /\ ret.value.gmr[i].count = 1
          /\ r_self[ret.value.gmr[i].label] \notin {0, DefaultRSelf}

\* C19: compute_gmd(B1, B2) = compute_gmd(B2, B1) for all bundles.
C19_GmdSymmetric ==
    (core.fn = "compute_gmd" /\ core.out # <<>>)
       => TermEq(core.out[1].gmd, core.out[1].gmd_swapped)

\* bundles of different sizes without a coincident pair, whose distances are
\* multiplied in a different order when the arguments are swapped
C19_Witness ==
    /\ core.fn = "compute_gmd" /\ core.out # <<>>
    /\ Len(core.b1) = 3 /\ Len(core.b2) = 2
    /\ ~TermIsZero(core.out[1].gmd)
    /\ core.out[1].gmd.num # core.out[1].gmd_swapped.num

\* C20: compute_gmr gives the same value for every permutation of the points
\* of a bundle.
C20_GmrOrderIndependent ==
    (core.fn = "compute_gmr_permuted" /\ core.out # <<>>)
       => TermEq(core.out[1].gmr, core.out[1].gmr_permuted)

\* three distinct points in another order, whose distances are multiplied in a
\* different order
C20_Witness ==
    /\ core.fn = "compute_gmr_permuted" /\ core.out # <<>>
    /\ Len(core.b1) = 3
    /\ Permuted(core.b1, core.perm) # core.b1
    /\ ~TermIsZero(core.out[1].gmr)
    /\ core.out[1].gmr.num # core.out[1].gmr_permuted.num

\* C21: compute_gmr of the empty bundle, compute_gmd with an empty first or
\* second bundle and geometric_mean of the empty list return the neutral
\* value 1.0 (one metre), whatever the other argument is.
C21_EmptyBundleNeutral ==
    core.out # <<>> =>
       /\ (core.fn = "compute_gmr" /\ core.b1 = <<>>)
            => core.out[1].gmr = Plain(UNIT_CONVERSIONS.m)
       /\ (core.fn = "compute_gmd" /\ (core.b1 = <<>> \/ core.b2 = <<>>))
            => /\ core.out[1].gmd = Plain(UNIT_CONVERSIONS.m)
               /\ core.out[1].gmd_swapped = Plain(UNIT_CONVERSIONS.m)
       /\ (core.fn = "geometric_mean" /\ core.values = <<>>)
            => core.out[1].gm = Plain(UNIT_CONVERSIONS.m)

\* compute_gmd was called with an empty first bundle and two points in the second
C21_Witness ==
    /\ core.fn = "compute_gmd" /\ core.out # <<>>
    /\ core.b1 = <<>> /\ Len(core.b2) = 2

\* C26: a newly created session has unit m, three empty bundles A, B, C,
\* physical radius 0.01 m, self-GMR 0.7788 * 0.01 m for each of A, B, C,
\* material Copper, length 100 km, frequency 60 Hz and an empty history.
C26_InitialState ==
    ncalls = 0 =>
       /\ unit = "m"
       /\ bundles = [A |-> <<>>, B |-> <<>>, C |-> <<>>]
       /\ conductor_radius * 100 = UNIT_CONVERSIONS.m
       /\ DOMAIN r_self = {"A", "B", "C"}
       /\ \A p \in {"A", "B", "C"} : r_self[p] * 10000 = 7788 * conductor_radius
       /\ material = "Copper"
       /\ length = 100
       /\ freq = 60
       /\ calc_history = <<>>

\* the session as its constructor leaves it
C26_Witness == ncalls = 0 /\ ret.op = "__init__" /\ ret.status = "ok"

\* the index pairs (i, j), i < j, of an n-point bundle
UniquePairs(n) ==
    SelectSeq([k \in 1..(n * n) |-> <<((k - 1) \div n) + 1, ((k - 1) % n) + 1>>],
              LAMBDA p : p[1] < p[2])

\* C27: for a bundle of n >= 2 points, compute_gmr returns the (n^2)-th root
\* of r_self^n times the square of the product of the C(n,2) unique pairwise
\* distances.
C27_GmrFormula ==
    (core.fn = "compute_gmr" /\ core.out # <<>> /\ Len(core.b1) >= 2)
       => LET n == Len(core.b1)
              pairs == UniquePairs(n)
              ds == [k \in 1..Len(pairs) |->
                       distance(core.b1[pairs[k][1]], core.b1[pairs[k][2]])]
          IN  /\ 2 * Len(pairs) = n * (n - 1)
              /\ TermEq(core.out[1].gmr,
                        TermRoot(TermProd(<<TermPow(Plain(core.r), n),
                                            TermPow(TermProd(ds), 2)>>), n * n))

\* the GMR of three distinct points
C27_Witness ==
    /\ core.fn = "compute_gmr" /\ core.out # <<>>
    /\ Len(core.b1) = 3
    /\ ~TermIsZero(core.out[1].gmr)
    /\ core.out[1].gmr.root = 18

\* C29: compute_results never changes the bundles, the self-GMR values, the
\* unit or the line parameters; it appends one history entry when it returns
\* parameters and leaves the history as it is when it reports no data or
\* raises; no other operation changes the history, which starts empty, so its
\* length is the number of compute_results calls that returned parameters.
C29_ComputeFrame ==
    /\ calc_history = <<>>
    /\ [][LET computed == ret'.op = "compute_results" /\ ncalls' # ncalls
              returned == computed /\ ret'.status = "ok"
                             /\ "params" \in DOMAIN ret'.value
          IN  /\ computed => UNCHANGED <<bundles, r_self, unit, material, length,
                                         conductor_radius, freq>>
              /\ returned => /\ Len(calc_history') = Len(calc_history) + 1
                             /\ SubSeq(calc_history', 1, Len(calc_history))
                                   = calc_history
              /\ ~returned => calc_history' = calc_history]_vars

\* a call that raised after an earlier call had returned parameters
C29_Witness ==
    /\ ret.op = "compute_results" /\ ret.status = "raise"
    /\ Len(calc_history) = 1
    /\ conductor_radius = 0

\* C28: when at least two phases have points, the equivalent bundle radius
\* is taken from the first non-empty phase in the order A, B, C: the physical
\* radius if that phase has one point, otherwise the n_cb-th root of
\* n_cb * radius * geometric_mean(internal distances)^(n_cb - 1), n_cb being
\* that phase's point count and not the largest count n used for the resistance.
C28_BundleRadiusOfFirstPhase ==
    (ret.op = "compute_results" /\ ret.status = "ok"
        /\ "params" \in DOMAIN ret.value /\ ret.value.params.lc)
       => LET first == IF bundles["A"] # <<>> THEN "A"
                       ELSE IF bundles["B"] # <<>> THEN "B" ELSE "C"
              pts == bundles[first]
              n_cb == Len(pts)
              pairs == UniquePairs(n_cb)
              ds == [k \in 1..Len(pairs) |-> distance(pts[pairs[k][1]], pts[pairs[k][2]])]
              r_eq == ret.value.params.r_bundle_equiv[1]
          IN  /\ n_cb >= 1
              /\ n_cb = 1 => r_eq = Plain(conductor_radius)
              /\ n_cb >= 2 =>
                    TermEq(r_eq,
                           TermRoot(TermProd(<<Plain(n_cb), Plain(conductor_radius),
                                               TermPow(geometric_mean(ds), n_cb - 1)>>),
                                    n_cb))
              /\ \A p \in {"A", "B", "C"} :
                    Len(bundles[p]) <= ret.value.params.n_conductors_per_phase
              /\ \E p \in {"A", "B", "C"} :
                    Len(bundles[p]) = ret.value.params.n_conductors_per_phase

\* the first non-empty phase has one conductor and a later phase has two
C28_Witness ==
    /\ ret.op = "compute_results" /\ ret.status = "ok"
    /\ "params" \in DOMAIN ret.value /\ ret.value.params.lc
    /\ Len(bundles["A"]) = 1 /\ Len(bundles["B"]) = 2
    /\ bundles["B"][1] # bundles["B"][2]
    /\ ret.value.params.n_conductors_per_phase = 2
    /\ ret.value.params.r_bundle_equiv = <<Plain(conductor_radius)>>

\* the state the scenario's eight configuration calls lead to
ScenarioConfigured ==
    /\ unit = "m"
    /\ r_self = [p \in {"A", "B", "C"} |-> (35 * UNIT_CONVERSIONS.m) \div 1000]
    /\ material = "ACSR" /\ length = 150 /\ freq = 60
    /\ conductor_radius = (4 * UNIT_CONVERSIONS.m) \div 100
    /\ bundles = [A |-> << <<(0 - 20) * UNIT_CONVERSIONS.m, 0>> >>,
                  B |-> << <<0, 0>> >>,
                  C |-> << <<20 * UNIT_CONVERSIONS.m, 0>> >>]

\* C22: end-to-end scenario: from a new session, after set_unit(m),
\* set_self_gmr 0.035 for A, B and C, set_line_params(ACSR, 150, 0.04, 60),
\* add_point(-20,0,A), add_point(0,0,B) and add_point(20,0,C), compute_results
\* reports GMR_A = GMR_B = GMR_C = 0.035 m, GMD A-B = GMD B-C = 20 m,
\* GMD A-C = 40 m and takes the average GMD over these three: (20+20+40)/3 m.
C22_EndToEndScenario ==
    (ret.op = "compute_results" /\ ScenarioConfigured)
       => /\ ret.status = "ok" /\ "params" \in DOMAIN ret.value
          /\ ret.value.gmr =
                [i \in 1..3 |->
                    [label |-> <<"A", "B", "C">>[i],
                     value |-> Plain((35 * UNIT_CONVERSIONS.m) \div 1000),
                     count |-> 1]]
          /\ Len(ret.value.gmd) = 3
          /\ \A i \in 1..3 :
                /\ ret.value.gmd[i].pair
                     = << <<"A", "B">>, <<"A", "C">>, <<"B", "C">> >>[i]
                /\ TermEq(ret.value.gmd[i].value,
                          Plain(<<20, 40, 20>>[i] * UNIT_CONVERSIONS.m))
                /\ ret.value.params.avg_gmd[i] = ret.value.gmd[i].value
          /\ Len(ret.value.params.avg_gmd) = 3
          /\ \E a, b, c \in {k * UNIT_CONVERSIONS.m : k \in {10, 20, 40, 80}} :
                /\ TermEq(ret.value.params.avg_gmd[1], Plain(a))
                /\ TermEq(ret.value.params.avg_gmd[2], Plain(b))
                /\ TermEq(ret.value.params.avg_gmd[3], Plain(c))
                /\ a + b + c = (20 + 20 + 40) * UNIT_CONVERSIONS.m

\* the result of the ninth call, the only compute_results of the behaviour
C22_Witness ==
    /\ ret.op = "compute_results" /\ ScenarioConfigured
    /\ ncalls = MaxCalls
    /\ Len(calc_history) = 1

\* the phases of the session that have points
PhasesWithPoints == {p \in DOMAIN bundles : bundles[p] # <<>>}

\* C24: when exactly one phase has points, the result of compute_results
\* reports the inductance and the capacitance (per km and total) and both
\* reactances as 0 next to the resistance; the L/C formulas are evaluated
\* only when at least two phases have points.
C24_SinglePhaseReport ==
    (ret.op = "compute_results" /\ ret.status = "ok" /\ "params" \in DOMAIN ret.value)
       => /\ ret.value.params.lc <=> Cardinality(PhasesWithPoints) >= 2
          /\ Cardinality(PhasesWithPoints) = 1 =>
                /\ L_per_km(ret.value.params) = "zero"
                /\ L_total(ret.value.params) = "zero"
                /\ C_per_km(ret.value.params) = "zero"
                /\ C_total(ret.value.params) = "zero"
                /\ XL(ret.value.params) = "zero"
                /\ XC(ret.value.params) = "zero"
                /\ ret.value.params.avg_gmd = <<>>
                /\ ret.value.params.avg_gmr = <<>>
                /\ ret.value.params.r_bundle_equiv = <<>>
                /\ R_per_km(ret.value.params)
                     = [num |-> <<MATERIALS[material], 1000>>,
                        den |-> <<conductor_radius, conductor_radius,
                                  Len(bundles[CHOOSE p \in PhasesWithPoints : TRUE])>>]
                /\ conductor_radius # 0

\* a result for a session whose only phase with points has two conductors
C24_Witness ==
    /\ ret.op = "compute_results" /\ ret.status = "ok" /\ "params" \in DOMAIN ret.value
    /\ PhasesWithPoints = {"B"} /\ Len(bundles["B"]) = 2
    /\ ~ret.value.params.lc
    /\ XL(ret.value.params) = "zero" /\ XC(ret.value.params) = "zero"

\* C25: in every result with parameters XL = omega * L_total and
\* XC = 1 / (omega * C_total), and XL (XC) is reported as 0 exactly when
\* L_total (C_total) is 0: a non-zero negative L_total or C_total does not
\* yield a reactance of 0.
C25_ReactanceZeroIffParameterZero ==
    (ret.op = "compute_results" /\ ret.status = "ok" /\ "params" \in DOMAIN ret.value)
       => /\ XL(ret.value.params) # "unknown"
               => (XL(ret.value.params) = "zero" <=> L_total(ret.value.params) = "zero")
          /\ XC(ret.value.params) # "unknown"
               => (XC(ret.value.params) = "zero" <=> C_total(ret.value.params) = "zero")

\* equality of two fractions of factor lists, and k times a fraction
FracEq(f1, f2) ==
    TermEq([num |-> f1.num \o f2.den, root |-> 1], [num |-> f2.num \o f1.den, root |-> 1])
FracScale(k, f) == [num |-> <<k>> \o f.num, den |-> f.den]

\* C23: with at least one point placed, R_per_km is
\* resistivity(material) * 1000 / (pi * radius^2 * n), n being the largest
\* point count over the non-empty phases, and R_total = R_per_km * length_km;
\* so between two results for the same bundles and material, doubling the
\* length doubles R_total and doubling the radius quarters R_per_km.
C23_Resistance ==
    /\ \A i \in 1..Len(calc_history) :
          LET cfg == calc_history[i].config
              params == calc_history[i].results.params
          IN  /\ params.rho = MATERIALS[cfg.material]
              /\ params.conductor_radius = cfg.radius_m
              /\ params.length = cfg.length_km
              /\ \A p \in DOMAIN cfg.bundles :
                    Len(cfg.bundles[p]) <= params.n_conductors_per_phase
              /\ \E p \in DOMAIN cfg.bundles :
                    Len(cfg.bundles[p]) = params.n_conductors_per_phase
              /\ FracEq(R_total(params), FracScale(cfg.length_km, R_per_km(params)))
    /\ \A i, j \in 1..Len(calc_history) :
          LET ci == calc_history[i].config
              cj == calc_history[j].config
              pi == calc_history[i].results.params
              pj == calc_history[j].results.params
          IN  (ci.bundles = cj.bundles /\ ci.material = cj.material) =>
                 /\ (cj.length_km = 2 * ci.length_km /\ cj.radius_m = ci.radius_m)
                       => FracEq(R_total(pj), FracScale(2, R_total(pi)))
                 /\ cj.radius_m = 2 * ci.radius_m
                       => FracEq(FracScale(4, R_per_km(pj)), R_per_km(pi))

\* two results for the same bundles and material, the second with twice the
\* radius of the first
C23_Witness ==
    /\ Len(calc_history) = 2
    /\ calc_history[1].config.bundles = calc_history[2].config.bundles
    /\ calc_history[1].config.material = calc_history[2].config.material
    /\ calc_history[2].config.radius_m = 2 * calc_history[1].config.radius_m
    /\ calc_history[1].config.radius_m > 0

\* the points of the file for phase b, in file order
ImportedPoints(b) == SelectSeq(imp.data.points, LAMBDA pt : pt.bundle = b)

\* the point pt of the file as add_point stores it under unit u
StoredAs(pt, u) ==
    <<FloatTimes(pt.x, UNIT_CONVERSIONS[u]), FloatTimes(pt.y, UNIT_CONVERSIONS[u])>>

\* the backend calls of handleImport come in the order clear_all, add_point
\* for every point of the file, set_unit, set_line_params, set_gmr; the unit
\* is still the one the import started with while the points are added; once
\* they are added, each phase holds the file's points converted with that unit
ImportOrder ==
    LET n == Len(imp.data.points)
        k == ImportCallsMade
    IN  /\ k = 1 => app_ret.op = "clear_all"
        /\ k \in 2..(n + 1) => app_ret.op = "add_point" /\ app_ret.status = "ok"
        /\ k = n + 2 => app_ret.op = "set_unit"
        /\ k = n + 3 => app_ret.op = "set_line_params"
        /\ k \in (n + 4)..(n + 6) => app_ret.op = "set_gmr"
        /\ k <= n + 1 => app_unit = imp.unit0
        /\ (k >= n + 2 /\ imp.data.unit \in DOMAIN UNIT_CONVERSIONS)
              => app_unit = imp.data.unit
        /\ k >= n + 1 =>
              \A b \in {"A", "B", "C"} :
                 app_bundles[b] = [i \in 1..Len(ImportedPoints(b)) |->
                                     StoredAs(ImportedPoints(b)[i], imp.unit0)]

====
